---------------------------- MODULE Spec2Model ----------------------------
(***************************************************************************)
(* Model of the Functor, Bifunctor and Pure traits of `higher` and of      *)
(* their implementations for the standard containers.                      *)
(*                                                                         *)
(* A program constructs a container (a literal, or Pure::pure), then       *)
(* calls trait methods on it.  Every method call is one action; the        *)
(* value it returns is appended to `vals`, the call to `hist`, and what    *)
(* the call did on the way (closure invocations, raw slot writes) is       *)
(* kept in `last`.                                                         *)
(*                                                                         *)
(* Values:                                                                 *)
(*   Option       <<"Some", x>>, <<"None">>                                *)
(*   Result       <<"Ok", x>>, <<"Err", e>>                                *)
(*   [A; N]       <<"Array", s>>            s a sequence of length N       *)
(*   Vec etc.     <<"Vec", s>>, <<"VecDeque", s>>, <<"LinkedList", s>>     *)
(*   maps         <<"BTreeMap", m>>, <<"HashMap", m>>   m a function       *)
(*   sets         <<"BTreeSet", S>>, <<"HashSet", S>>                      *)
(*   BinaryHeap   <<"BinaryHeap", s>>       s in pop order (descending)    *)
(*   iterator     <<"Iter", s>>             s the items not yet yielded    *)
(*   unit         <<>>                                                     *)
(***************************************************************************)
EXTENDS Integers, Sequences, FiniteSets, TLC

\* ------------------------------------------------------------- bounds
\* element values are 0..MaxVal
MaxVal == 1
\* sequences, arrays hold at most MaxLen elements
MaxLen == 3
\* map keys are 0..MaxKey
MaxKey == 2
\* a program makes at most MaxOps method calls on what it constructed
MaxOps == 2
\* next() is called at most MaxExtraNext times on an exhausted iterator
MaxExtraNext == 1

Vals == 0..MaxVal
Keys == 0..MaxKey

\* ------------------------------------------------------------- closures
\* The functions a caller passes.  A closure is a sequence of primitive
\* function names applied left to right, so that x -> g(f(x)) is <<f, g>>.
Prims == {"identity", "add2", "mul2", "half", "zero"}

Prim(p, x) ==
    CASE p = "identity" -> x
      [] p = "add2"     -> x + 2
      [] p = "mul2"     -> x * 2
      [] p = "half"     -> x \div 2
      [] p = "zero"     -> 0
      [] p = "push"     -> <<>>

RECURSIVE Call(_, _)
Call(cl, x) ==
    IF cl = <<>> THEN x ELSE Call(Tail(cl), Prim(Head(cl), x))

Closures == {<<p>> : p \in Prims}

Identity == <<"identity">>

compose(g, f) == f \o g

\* The functions funzip takes: each splits an element into a pair.
Splitters == {"dup", "divmod", "around"}

Split(z, x) ==
    CASE z = "dup"    -> <<x, x>>
      [] z = "divmod" -> <<x \div 2, x % 2>>
      [] z = "around" -> <<x + 1, x * 2>>

Unit == <<>>

\* ------------------------------------------------------------- containers
Some(x) == <<"Some", x>>
None == <<"None">>
Ok(x) == <<"Ok", x>>
Err(e) == <<"Err", e>>

SeqKinds == {"Vec", "VecDeque", "LinkedList"}
MapKinds == {"BTreeMap", "HashMap"}

Tag(c) == c[1]

IsOption(c) == Tag(c) \in {"Some", "None"}
IsResult(c) == Tag(c) \in {"Ok", "Err"}
IsFunctor(c) == Tag(c) \in {"Some", "None", "Ok", "Err", "Array"} \cup SeqKinds
IsBifunctor(c) == Tag(c) \in {"Ok", "Err"} \cup MapKinds

SeqsUpTo(S, n) == UNION {[1..k -> S] : k \in 0..n}

MapsOver(K, V) == UNION {[D -> V] : D \in SUBSET K}

Range(s) == {s[i] : i \in DOMAIN s}

\* all orders in which the elements of S can be enumerated
Perms(S) ==
    {s \in [1..Cardinality(S) -> S] : \A i, j \in DOMAIN s : s[i] = s[j] => i = j}

\* ascending order of a finite set of integers
RECURSIVE Ascending(_)
Ascending(S) ==
    IF S = {} THEN <<>>
    ELSE LET m == CHOOSE x \in S : \A y \in S : x <= y
         IN <<m>> \o Ascending(S \ {m})

\* MapInsert as entry(k).or_insert(v) would do it: an old key keeps its value
MapInsertKeepOld(m, k, v) ==
    [x \in DOMAIN m \cup {k} |-> IF x \in DOMAIN m THEN m[x] ELSE v]

\* insert of entry (k, v): a new key is added, the value of an old key replaced
MapInsert(m, k, v) == [x \in DOMAIN m \cup {k} |-> IF x = k THEN v ELSE m[x]]

EmptyMap == [x \in {} |-> 0]

\* ------------------------------------------------------------- Functor
\* What a call leaves behind: the value returned (out), the closure
\* invocations in the order they happened (calls, each <<role, argument>>),
\* the raw writes through the output pointer (writes, each <<slot, value>>,
\* slots counted from 0) and whether the call ran into undefined behaviour.
Outcome(o, c, w, u) == [out |-> o, calls |-> c, writes |-> w, ub |-> u]

\* Option::map
OptionFmap(self, f) ==
    IF Tag(self) = "Some"
    THEN Outcome(Some(Call(f, self[2])), <<<<"f", self[2]>>>>, <<>>, FALSE)
    ELSE Outcome(None, <<>>, <<>>, FALSE)

\* Result::map
ResultFmap(self, f) ==
    IF Tag(self) = "Ok"
    THEN Outcome(Ok(Call(f, self[2])), <<<<"f", self[2]>>>>, <<>>, FALSE)
    ELSE Outcome(Err(self[2]), <<>>, <<>>, FALSE)

\* ArrayIntoIter iterating from the back
ArrayIntoIterRev(a) == [i \in 1..Len(a) |-> a[Len(a) + 1 - i]]

\* [A; N]::into_iter: the N elements, front to back
ArrayIntoIter(a) == a

\* MaybeUninit::uninit(): N slots, each <<>> (not written) or <<b>>
UninitArray(n) == [i \in 1..n |-> <<>>]

\* ArrayLoop without `ptr = ptr.add(1)`: every write goes to the same slot
RECURSIVE ArrayLoopNoAdvance(_, _, _, _, _, _, _)
ArrayLoopNoAdvance(iter, f, out, ptr, log, wr, oob) ==
    IF iter = <<>>
    THEN [slots |-> out, ptr |-> ptr, calls |-> log, writes |-> wr, oob |-> oob]
    ELSE LET item == Head(iter)
             b    == Call(f, item)
             inside == ptr < Len(out)
         IN ArrayLoopNoAdvance(Tail(iter), f,
                      IF inside THEN [out EXCEPT ![ptr + 1] = <<b>>] ELSE out,
                      ptr,
                      Append(log, <<"f", item>>),
                      Append(wr, <<ptr, b>>),
                      oob \/ ~inside)

\* The loop of the array's fmap: `ptr` counts the slots from 0.  A write
\* with ptr >= N is outside the buffer.
RECURSIVE ArrayLoop(_, _, _, _, _, _, _)
ArrayLoop(iter, f, out, ptr, log, wr, oob) ==
    IF iter = <<>>
    THEN [slots |-> out, ptr |-> ptr, calls |-> log, writes |-> wr, oob |-> oob]
    ELSE LET item == Head(iter)
             b    == Call(f, item)
             inside == ptr < Len(out)
         IN ArrayLoop(Tail(iter), f,
                      IF inside THEN [out EXCEPT ![ptr + 1] = <<b>>] ELSE out,
                      ptr + 1,
                      Append(log, <<"f", item>>),
                      Append(wr, <<ptr, b>>),
                      oob \/ ~inside)

\* what a read of a slot that was never written may give
Garbage(f) == {Call(f, v) : v \in Vals}

\* MaybeUninit::assume_init: the written slots as they are; a slot never
\* written reads as anything
AssumeInit(slots, f) ==
    {a \in [1..Len(slots) -> Garbage(f) \cup {s[1] : s \in Range(slots) \ {<<>>}}] :
        \A i \in 1..Len(slots) : slots[i] # <<>> => a[i] = slots[i][1]}

ArrayFmap(self, f) ==
    LET r == ArrayLoop(ArrayIntoIter(self[2]), f, UninitArray(Len(self[2])),
                       0, <<>>, <<>>, FALSE)
    IN {Outcome(<<"Array", a>>, r.calls, r.writes,
                r.oob \/ \E i \in 1..Len(r.slots) : r.slots[i] = <<>>) :
           a \in AssumeInit(r.slots, f)}

\* Vec / VecDeque / LinkedList ::into_iter: front to back
SeqIntoIter(s) == s

\* MapCollect pushing each result at the front
RECURSIVE MapCollectPushFront(_, _, _, _)
MapCollectPushFront(iter, f, acc, log) ==
    IF iter = <<>>
    THEN [items |-> acc, calls |-> log]
    ELSE MapCollectPushFront(Tail(iter), f,
                             <<Call(f, Head(iter))>> \o acc,
                             Append(log, <<"f", Head(iter)>>))

\* iter.map(f).collect(): each item is taken, given to f and the result
\* pushed at the back
RECURSIVE MapCollect(_, _, _, _)
MapCollect(iter, f, acc, log) ==
    IF iter = <<>>
    THEN [items |-> acc, calls |-> log]
    ELSE MapCollect(Tail(iter), f,
                    Append(acc, Call(f, Head(iter))),
                    Append(log, <<"f", Head(iter)>>))

\* SeqFmap losing the first element: into_iter().skip(1)
SeqFmapSkipFirst(self, f) ==
    LET r == MapCollect(IF self[2] = <<>> THEN <<>> ELSE Tail(self[2]), f, <<>>, <<>>)
    IN Outcome(<<Tag(self), r.items>>, r.calls, <<>>, FALSE)

\* impl_fmap_from_iter!
SeqFmap(self, f) ==
    LET r == MapCollect(SeqIntoIter(self[2]), f, <<>>, <<>>)
    IN Outcome(<<Tag(self), r.items>>, r.calls, <<>>, FALSE)

\* Functor::fmap, by the implementation of the receiver's type
Fmap(self, f) ==
    CASE IsOption(self)         -> {OptionFmap(self, f)}
      [] IsResult(self)         -> {ResultFmap(self, f)}
      [] Tag(self) = "Array"    -> ArrayFmap(self, f)
      [] Tag(self) \in SeqKinds -> {SeqFmap(self, f)}

\* the closure of f_into_iter: move |a| istore.borrow_mut().push(a)
PushClosure == <<"push">>

\* The store after the closure ran: what it was given, in order
Store(calls) == [i \in 1..Len(calls) |-> calls[i][2]]

\* Functor::f_into_iter: fmap with the pushing closure, then the store's
\* into_iter
FIntoIter(self) ==
    {Outcome(<<"Iter", Store(r.calls)>>,
             [i \in 1..Len(r.calls) |-> <<"push", r.calls[i][2]>>],
             r.writes, r.ub) : r \in Fmap(self, PushClosure)}

\* Unzip with the two sides of each pair exchanged
RECURSIVE UnzipSwapped(_, _, _, _, _)
UnzipSwapped(iter, z, left, right, log) ==
    IF iter = <<>>
    THEN [left |-> left, right |-> right, calls |-> log]
    ELSE LET p == Split(z, Head(iter))
         IN UnzipSwapped(Tail(iter), z, Append(left, p[2]), Append(right, p[1]),
                         Append(log, <<"z", Head(iter)>>))

\* Iterator::unzip over .map(|a| f(a)): the two containers start as
\* Default::default() and are extended with one side of each pair
RECURSIVE Unzip(_, _, _, _, _)
Unzip(iter, z, left, right, log) ==
    IF iter = <<>>
    THEN [left |-> left, right |-> right, calls |-> log]
    ELSE LET p == Split(z, Head(iter))
         IN Unzip(Tail(iter), z, Append(left, p[1]), Append(right, p[2]),
                  Append(log, <<"z", Head(iter)>>))

\* Functor::funzip
Funzip(self, z) ==
    {LET u == Unzip(i.out[2], z, <<>>, <<>>, <<>>)
     IN Outcome(<<"Pair", <<Tag(self), u.left>>, <<Tag(self), u.right>>>>,
                i.calls \o u.calls, i.writes, i.ub) : i \in FIntoIter(self)}

\* IterNext taking from the back, as Vec::pop does
IterNextBack(it) ==
    IF it[2] = <<>>
    THEN [item |-> None, iter |-> it]
    ELSE [item |-> Some(it[2][Len(it[2])]),
          iter |-> <<"Iter", SubSeq(it[2], 1, Len(it[2]) - 1)>>]

\* Iterator::next on the boxed vec::IntoIter
IterNext(it) ==
    IF it[2] = <<>>
    THEN [item |-> None, iter |-> it]
    ELSE [item |-> Some(Head(it[2])), iter |-> <<"Iter", Tail(it[2])>>]

\* ------------------------------------------------------------- Bifunctor
\* ResultBimap with the two functions exchanged
ResultBimapSwapped(self, left, right) ==
    IF Tag(self) = "Ok"
    THEN Outcome(Ok(Call(right, self[2])), <<<<"right", self[2]>>>>, <<>>, FALSE)
    ELSE Outcome(Err(Call(left, self[2])), <<<<"left", self[2]>>>>, <<>>, FALSE)

\* Result's bimap: the match on the variant
ResultBimap(self, left, right) ==
    IF Tag(self) = "Ok"
    THEN Outcome(Ok(Call(left, self[2])), <<<<"left", self[2]>>>>, <<>>, FALSE)
    ELSE Outcome(Err(Call(right, self[2])), <<<<"right", self[2]>>>>, <<>>, FALSE)

\* BTreeMap::into_iter: the keys in ascending order
BTreeMapIntoIter(m) == Ascending(DOMAIN m)

\* HashMap::into_iter: the keys in an order the hasher decides
HashMapIntoIter(m) == Perms(DOMAIN m)

\* iter.map(|(k, v)| (left(k), right(v))).collect() into a map: each entry
\* is taken, left given its key, then right its value, and the new entry
\* inserted
RECURSIVE BimapCollect(_, _, _, _, _, _)
BimapCollect(iter, m, left, right, acc, log) ==
    IF iter = <<>>
    THEN [map |-> acc, calls |-> log]
    ELSE LET k == Head(iter)
         IN BimapCollect(Tail(iter), m, left, right,
                         MapInsert(acc, Call(left, k), Call(right, m[k])),
                         log \o <<<<"left", k>>, <<"right", m[k]>>>>)

BTreeMapBimap(self, left, right) ==
    LET r == BimapCollect(BTreeMapIntoIter(self[2]), self[2], left, right,
                          EmptyMap, <<>>)
    IN Outcome(<<"BTreeMap", r.map>>, r.calls, <<>>, FALSE)

HashMapBimap(self, left, right) ==
    {LET r == BimapCollect(order, self[2], left, right, EmptyMap, <<>>)
     IN Outcome(<<"HashMap", r.map>>, r.calls, <<>>, FALSE) :
        order \in HashMapIntoIter(self[2])}

\* Bifunctor::bimap, by the implementation of the receiver's type
Bimap(self, left, right) ==
    CASE IsResult(self)          -> {ResultBimap(self, left, right)}
      [] Tag(self) = "BTreeMap"  -> {BTreeMapBimap(self, left, right)}
      [] Tag(self) = "HashMap"   -> HashMapBimap(self, left, right)

\* Lmap with the identity on the wrong side
LmapSwapped(self, f) == Bimap(self, Identity, f)

\* BifunctorLeft::lmap
Lmap(self, f) == Bimap(self, f, Identity)

\* BifunctorRight::rmap
Rmap(self, f) == Bimap(self, Identity, f)

\* ------------------------------------------------------------- Pure
PureKinds == {"Option", "Result", "Vec", "VecDeque", "LinkedList",
              "BinaryHeap", "HashSet", "BTreeSet", "HashMap", "BTreeMap"}

\* SeqFromIter that never extends the container
SeqFromIterEmpty(items, acc) == acc

\* FromIterator for VecDeque and LinkedList: push_back of each item
RECURSIVE SeqFromIter(_, _)
SeqFromIter(items, acc) ==
    IF items = <<>> THEN acc ELSE SeqFromIter(Tail(items), Append(acc, Head(items)))

\* FromIterator for HashSet and BTreeSet: insert of each item
RECURSIVE SetFromIter(_, _)
SetFromIter(items, acc) ==
    IF items = <<>> THEN acc ELSE SetFromIter(Tail(items), acc \cup {Head(items)})

\* BinaryHeap::push, the heap kept in pop order
HeapPush(h, x) ==
    LET n == Cardinality({i \in DOMAIN h : h[i] >= x})
    IN SubSeq(h, 1, n) \o <<x>> \o SubSeq(h, n + 1, Len(h))

\* FromIterator for BinaryHeap
RECURSIVE HeapFromIter(_, _)
HeapFromIter(items, acc) ==
    IF items = <<>> THEN acc ELSE HeapFromIter(Tail(items), HeapPush(acc, Head(items)))

\* FromIterator for HashMap and BTreeMap: insert of each pair
RECURSIVE MapFromIter(_, _)
MapFromIter(pairs, acc) ==
    IF pairs = <<>> THEN acc
    ELSE MapFromIter(Tail(pairs), MapInsert(acc, Head(pairs)[1], Head(pairs)[2]))

\* Pure::pure, by the implementation of the target type; for the two maps
\* `value` is a pair <<k, v>>
Pure(kind, value) ==
    CASE kind = "Option"     -> Some(value)
      [] kind = "Result"     -> Ok(value)
      [] kind = "Vec"        -> <<"Vec", <<value>>>>
      [] kind = "VecDeque"   -> <<"VecDeque", SeqFromIter(<<value>>, <<>>)>>
      [] kind = "LinkedList" -> <<"LinkedList", SeqFromIter(<<value>>, <<>>)>>
      [] kind = "BinaryHeap" -> <<"BinaryHeap", HeapFromIter(<<value>>, <<>>)>>
      [] kind = "HashSet"    -> <<"HashSet", SetFromIter(<<value>>, {})>>
      [] kind = "BTreeSet"   -> <<"BTreeSet", SetFromIter(<<value>>, {})>>
      [] kind = "HashMap"    -> <<"HashMap", MapFromIter(<<value>>, EmptyMap)>>
      [] kind = "BTreeMap"   -> <<"BTreeMap", MapFromIter(<<value>>, EmptyMap)>>

\* what pure takes for a target type
PureInputs(kind) == IF kind \in MapKinds THEN Keys \X Vals ELSE Vals

\* ------------------------------------------------------------- the program
VARIABLES
    vals,     \* the values the program held, oldest first; the last is live
    hist,     \* hist[i] is the call that produced vals[i]
    last,     \* the Outcome of the latest trait method call
    yielded   \* what next() returned on the live iterator, in order

vars == <<vals, hist, last, yielded>>

cur == vals[Len(vals)]

\* the container literals a program starts from
Literals ==
    {Some(x) : x \in Vals} \cup {None}
    \cup {Ok(x) : x \in Vals} \cup {Err(e) : e \in Vals}
    \cup {<<k, s>> : k \in {"Array"} \cup SeqKinds, s \in SeqsUpTo(Vals, MaxLen)}
    \cup {<<k, m>> : k \in MapKinds, m \in MapsOver(Keys, Vals)}

NoCall == Outcome(Unit, <<>>, <<>>, FALSE)

Init ==
    /\ vals = <<>>
    /\ hist = <<>>
    /\ last = NoCall
    /\ yielded = <<>>

Returned(r, call) ==
    /\ vals' = Append(vals, r.out)
    /\ hist' = Append(hist, call)
    /\ last' = r
    /\ yielded' = <<>>

CanCall == vals # <<>> /\ Len(hist) <= MaxOps

Construct ==
    /\ vals = <<>>
    /\ \E c \in Literals : Returned([NoCall EXCEPT !.out = c], <<"new">>)

PureCall ==
    /\ vals = <<>>
    /\ \E kind \in PureKinds : \E value \in PureInputs(kind) :
          Returned([NoCall EXCEPT !.out = Pure(kind, value)], <<"pure", kind, value>>)

FmapCall ==
    /\ CanCall
    /\ IsFunctor(cur)
    /\ \E f \in Closures : \E r \in Fmap(cur, f) : Returned(r, <<"fmap", f>>)

FIntoIterCall ==
    /\ CanCall
    /\ IsFunctor(cur)
    /\ \E r \in FIntoIter(cur) : Returned(r, <<"f_into_iter">>)

NextCall ==
    /\ vals # <<>>
    /\ Tag(cur) = "Iter"
    /\ Len(yielded) < Len(last.out[2]) + MaxExtraNext
    /\ LET r == IterNext(cur)
       IN /\ vals' = [vals EXCEPT ![Len(vals)] = r.iter]
          /\ yielded' = Append(yielded, r.item)
    /\ UNCHANGED <<hist, last>>

FunzipCall ==
    /\ CanCall
    /\ Tag(cur) \in SeqKinds
    /\ \E z \in Splitters : \E r \in Funzip(cur, z) : Returned(r, <<"funzip", z>>)

\* The Bifunctor methods are called on a container as constructed, the
\* Functor methods also on the result of an earlier fmap.
BimapCall ==
    /\ CanCall
    /\ Len(hist) = 1
    /\ IsBifunctor(cur)
    /\ \E left, right \in Closures :
          \E r \in Bimap(cur, left, right) : Returned(r, <<"bimap", left, right>>)

LmapCall ==
    /\ CanCall
    /\ Len(hist) = 1
    /\ IsBifunctor(cur)
    /\ \E f \in Closures : \E r \in Lmap(cur, f) : Returned(r, <<"lmap", f>>)

RmapCall ==
    /\ CanCall
    /\ Len(hist) = 1
    /\ IsBifunctor(cur)
    /\ \E f \in Closures : \E r \in Rmap(cur, f) : Returned(r, <<"rmap", f>>)

Next ==
    \/ Construct
    \/ PureCall
    \/ FmapCall
    \/ FIntoIterCall
    \/ NextCall
    \/ FunzipCall
    \/ BimapCall
    \/ LmapCall
    \/ RmapCall

Spec == Init /\ [][Next]_vars

\* ------------------------------------------------------------- properties
n == Len(vals)

\* the latest call is `op`, made on a value the program held before
After(op) == n >= 2 /\ hist[n][1] = op

\* the receiver of the latest call
recv == vals[n - 1]

\* the entries of a call log made in one role
InRole(log, role) == SelectSeq(log, LAMBDA e : e[1] = role)

\* the elements of a Functor container in its iteration order
Elements(c) ==
    CASE Tag(c) \in {"Some", "Ok"}  -> <<c[2]>>
      [] Tag(c) \in {"None", "Err"} -> <<>>
      [] OTHER                      -> c[2]

\* C1: fmap(c, f) calls f exactly once per element, in iteration order, and
\* returns a container of the same shape whose i-th element is f of the
\* i-th element of c: Some(x) gives Some(f(x)), None gives None, Ok(x)
\* gives Ok(f(x)), Err(e) gives Err(e) with f never called, and a sequence
\* of length N gives a sequence of length N.
C1_FmapElementwise ==
    After("fmap") =>
        LET c == recv
            f == hist[n][2]
        IN /\ ~last.ub
           /\ last.calls = [i \in 1..Len(Elements(c)) |-> <<"f", Elements(c)[i]>>]
           /\ CASE Tag(c) = "Some" -> cur = Some(Call(f, c[2]))
                [] Tag(c) = "None" -> cur = None
                [] Tag(c) = "Ok"   -> cur = Ok(Call(f, c[2]))
                [] Tag(c) = "Err"  -> cur = Err(c[2]) /\ last.calls = <<>>
                [] OTHER           ->
                      /\ Tag(cur) = Tag(c)
                      /\ Len(cur[2]) = Len(c[2])
                      /\ \A i \in 1..Len(c[2]) : cur[2][i] = Call(f, c[2][i])

C1_Witness ==
    /\ After("fmap")
    /\ hist[n][2] = <<"add2">>
    /\ Tag(recv) = "VecDeque"
    /\ Len(recv[2]) >= 2
    /\ recv[2][1] # recv[2][2]

\* C2: identity law: fmap(c, identity) equals c, the same structure with
\* the same values in the same positions.
C2_IdentityLaw ==
    (After("fmap") /\ hist[n][2] = Identity) => cur = recv

C2_Witness ==
    /\ After("fmap")
    /\ hist[n][2] = Identity
    /\ Tag(recv) = "Array"
    /\ Len(recv[2]) >= 2
    /\ recv[2][1] # recv[2][2]

\* C3: composition law: fmap(fmap(c, f), g) equals fmap(c, x -> g(f(x))).
C3_CompositionLaw ==
    (n >= 3 /\ hist[n][1] = "fmap" /\ hist[n - 1][1] = "fmap") =>
        \A r \in Fmap(vals[n - 2], compose(hist[n][2], hist[n - 1][2])) :
            cur = r.out

C3_Witness ==
    /\ n >= 3
    /\ hist[n] = <<"fmap", <<"mul2">>>>
    /\ hist[n - 1] = <<"fmap", <<"add2">>>>
    /\ Tag(vals[n - 2]) = "Vec"
    /\ Len(vals[n - 2][2]) >= 2
    /\ cur[2][1] # cur[2][2]

\* C4: bimap on a Result: Ok(a) gives Ok(f(a)) and g is never called,
\* Err(b) gives Err(g(b)) and f is never called; exactly one of the two
\* functions is called, exactly once.
C4_ResultBimap ==
    (After("bimap") /\ IsResult(recv)) =>
        LET f == hist[n][2]
            g == hist[n][3]
        IN /\ Len(last.calls) = 1
           /\ Tag(recv) = "Ok" =>
                 cur = Ok(Call(f, recv[2])) /\ last.calls = <<<<"left", recv[2]>>>>
           /\ Tag(recv) = "Err" =>
                 cur = Err(Call(g, recv[2])) /\ last.calls = <<<<"right", recv[2]>>>>

C4_Witness ==
    /\ After("bimap")
    /\ Tag(recv) = "Err"
    /\ hist[n][2] = <<"zero">>
    /\ hist[n][3] = <<"add2">>
    /\ cur = Err(recv[2] + 2)

\* C5: bimap on a BTreeMap visits the entries in ascending order of the
\* original keys and calls the key function and the value function once
\* per entry; the result has one entry per distinct new key, and where
\* several keys collide on a new key its value is the new value of the
\* colliding entry that is last in original key order; with a key function
\* injective on the keys the result has as many entries as the input.
C5_BTreeMapBimap ==
    (After("bimap") /\ Tag(recv) = "BTreeMap") =>
        LET m     == recv[2]
            f     == hist[n][2]
            g     == hist[n][3]
            ks    == Ascending(DOMAIN m)
            out   == cur[2]
            to(k) == {j \in DOMAIN m : Call(f, j) = k}
            mx(S) == CHOOSE x \in S : \A y \in S : y <= x
        IN /\ InRole(last.calls, "left") = [i \in 1..Len(ks) |-> <<"left", ks[i]>>]
           /\ InRole(last.calls, "right") = [i \in 1..Len(ks) |-> <<"right", m[ks[i]]>>]
           /\ Len(last.calls) = 2 * Len(ks)
           /\ Tag(cur) = "BTreeMap"
           /\ DOMAIN out = {Call(f, k) : k \in DOMAIN m}
           /\ \A k \in DOMAIN out : out[k] = Call(g, m[mx(to(k))])
           /\ (\A j, k \in DOMAIN m : Call(f, j) = Call(f, k) => j = k) =>
                 Cardinality(DOMAIN out) = Cardinality(DOMAIN m)

C5_Witness ==
    /\ After("bimap")
    /\ Tag(recv) = "BTreeMap"
    /\ hist[n][2] = <<"half">>
    /\ hist[n][3] = <<"add2">>
    /\ DOMAIN recv[2] = {0, 1, 2}
    /\ recv[2][0] # recv[2][1]
    /\ Cardinality(DOMAIN cur[2]) = 2

\* C6: fmap on an array of N elements treats the output buffer as
\* initialized only after each of its N slots was written: slot i is
\* written exactly once, with f of element i, no write goes past slot
\* N - 1, and no slot is written twice or left unwritten, also for N = 0.
C6_ArraySlots ==
    (After("fmap") /\ Tag(recv) = "Array") =>
        LET a  == recv[2]
            f  == hist[n][2]
            w  == last.writes
        IN /\ ~last.ub
           /\ Len(w) = Len(a)
           /\ \A i \in 1..Len(w) : w[i][1] \in 0..(Len(a) - 1)
           /\ \A slot \in 0..(Len(a) - 1) :
                 /\ Cardinality({i \in 1..Len(w) : w[i][1] = slot}) = 1
                 /\ \A i \in 1..Len(w) :
                       w[i][1] = slot => w[i][2] = Call(f, a[slot + 1])
           /\ cur = <<"Array", [i \in 1..Len(a) |-> Call(f, a[i])]>>

C6_Witness ==
    /\ After("fmap")
    /\ Tag(recv) = "Array"
    /\ hist[n][2] = <<"mul2">>
    /\ Len(recv[2]) >= 3
    /\ recv[2][1] # recv[2][2]
    /\ Len(last.writes) = Len(recv[2])

\* C7: pure(x) builds the minimal instance holding exactly x: Some(x),
\* Ok(x), a one-element Vec, VecDeque, LinkedList, BinaryHeap, HashSet or
\* BTreeSet, the one-entry map {k -> v} for HashMap and BTreeMap; fmap(f)
\* on the one-element sequence then gives the one-element sequence [f(x)].
C7_PureMinimal ==
    (n >= 1 /\ hist[1][1] = "pure") =>
        LET kind == hist[1][2]
            x    == hist[1][3]
            c    == vals[1]
        IN /\ kind = "Option" => c = Some(x)
           /\ kind = "Result" => c = Ok(x)
           /\ kind \in SeqKinds \cup {"BinaryHeap"} => c = <<kind, <<x>>>>
           /\ kind \in {"HashSet", "BTreeSet"} => c = <<kind, {x}>>
           /\ kind \in MapKinds =>
                 /\ Tag(c) = kind
                 /\ DOMAIN c[2] = {x[1]}
                 /\ c[2][x[1]] = x[2]
           /\ (kind \in SeqKinds /\ n >= 2 /\ hist[2][1] = "fmap") =>
                 vals[2] = <<kind, <<Call(hist[2][2], x)>>>>

C7_Witness ==
    /\ n >= 2
    /\ hist[1] = <<"pure", "Vec", 1>>
    /\ hist[2] = <<"fmap", <<"add2">>>>
    /\ vals[2] = <<"Vec", <<3>>>>

C9_Funzip ==
    After("funzip") =>
        LET s == recv[2]
            z == hist[n][2]
        IN /\ InRole(last.calls, "z") = [i \in 1..Len(s) |-> <<"z", s[i]>>]
           /\ Tag(cur) = "Pair"
           /\ Tag(cur[2]) = Tag(recv) /\ Tag(cur[3]) = Tag(recv)
           /\ Len(cur[2][2]) = Len(s) /\ Len(cur[3][2]) = Len(s)
           /\ \A i \in 1..Len(s) :
                 /\ cur[2][2][i] = Split(z, s[i])[1]
                 /\ cur[3][2][i] = Split(z, s[i])[2]

C9_Witness ==
    /\ After("funzip")
    /\ hist[n][2] = "around"
    /\ Tag(recv) = "LinkedList"
    /\ Len(recv[2]) >= 2
    /\ recv[2][1] # recv[2][2]
    /\ cur[2][2] # cur[3][2]

\* what the iterator returned by f_into_iter has given so far is the
\* elements of the container in iteration order, each once, then None
YieldsInOrder ==
    LET e == Elements(recv)
    IN /\ \A i \in 1..Len(yielded) :
             yielded[i] = IF i <= Len(e) THEN Some(e[i]) ELSE None
       /\ cur = <<"Iter", SubSeq(e, Len(yielded) + 1, Len(e))>>

\* C10 as stated: f_into_iter returns a lazy, finite, one-shot sequence of
\* the elements in iteration order, each yielded exactly once, and an
\* element is taken out of the container only when the consumer asks for
\* the next item, not before f_into_iter returns.
C10_LazyDrain ==
    After("f_into_iter") =>
        /\ YieldsInOrder
        /\ Len(InRole(last.calls, "push")) <= Len(yielded)

\* C10 as amended: f_into_iter moves every element out of the container
\* into a buffer before it returns, and returns a finite, one-shot
\* sequence over that buffer: each element is yielded exactly once, in
\* iteration order, and None after the last.
C10_EagerDrain ==
    After("f_into_iter") =>
        /\ YieldsInOrder
        /\ ~last.ub
        /\ last.calls = [i \in 1..Len(Elements(recv)) |-> <<"push", Elements(recv)[i]>>]

C10_Witness ==
    /\ After("f_into_iter")
    /\ Tag(recv) = "Vec"
    /\ Len(recv[2]) >= 2
    /\ recv[2][1] # recv[2][2]
    /\ Len(yielded) = Len(recv[2]) + 1
=============================================================================
